---- MODULE Spec2Model ----
(***************************************************************************)
(* Model of the company-discovery pipeline of firecrawl_discovery.py:      *)
(* the platform registry, the search strategies, URL extraction, the       *)
(* per-platform discovery loop, merge and persist, and the orchestrator.   *)
(* Strings are sequences of one-character strings, so that substring       *)
(* tests, anchored pattern matching and lexicographic sorting are computed *)
(* rather than assumed.                                                    *)
(***************************************************************************)
EXTENDS Integers, Sequences, FiniteSets, TLC

(***************************************************************************)
(* Characters and string helpers                                           *)
(***************************************************************************)

\* The characters used by the model, in code-point order.
CharOrder ==
  <<"#", "-", ".", "/", "1", ":", "=", "?", "@",
    "a", "b", "c", "d", "e", "f", "g", "h", "i", "j", "k", "l", "m",
    "n", "o", "p", "q", "r", "s", "t", "u", "v", "w", "x", "y", "z">>

\* Rank of a character; order-isomorphic to its code point.
Code(c) == CHOOSE i \in 1..Len(CharOrder) : CharOrder[i] = c

\* Python's str "<": lexicographic by code point, a proper prefix is smaller.
RECURSIVE StrLess(_, _)
StrLess(a, b) ==
  IF b = <<>> THEN FALSE
  ELSE IF a = <<>> THEN TRUE
  ELSE IF Head(a) = Head(b) THEN StrLess(Tail(a), Tail(b))
  ELSE Code(Head(a)) < Code(Head(b))

\* Python's "d in u" for strings: d occurs somewhere in u.
Contains(u, d) ==
  \E i \in 0..(Len(u) - Len(d)) : SubSeq(u, i + 1, i + Len(d)) = d

\* u continues with the literal s after its first pos characters.
HasPrefixAt(u, pos, s) ==
  /\ pos + Len(s) <= Len(u)
  /\ SubSeq(u, pos + 1, pos + Len(s)) = s

Min(a, b) == IF a <= b THEN a ELSE b

Max(a, b) == IF a >= b THEN a ELSE b

Range(s) == {s[i] : i \in 1..Len(s)}

\* Python's seq[:n]: the first n items, or all but the last -n for n < 0.
PySlicePrefix(seq, n) ==
  IF n >= 0 THEN SubSeq(seq, 1, Min(n, Len(seq)))
  ELSE SubSeq(seq, 1, Max(Len(seq) + n, 0))

\* The least string of a non-empty set.
LeastStr(S) == CHOOSE x \in S : \A y \in S : y = x \/ StrLess(x, y)

\* Python's sorted(S) for a set of strings.
RECURSIVE Sorted(_)
Sorted(S) ==
  IF S = {} THEN <<>>
  ELSE LET m == LeastStr(S) IN <<m>> \o Sorted(S \ {m})

(***************************************************************************)
(* String literals                                                         *)
(***************************************************************************)

Https == <<"h","t","t","p","s",":","/","/">>
AshbyDomain == <<"j","o","b","s",".","a","s","h","b","y","h","q",".","c","o","m">>
GhJobBoardsDomain == <<"j","o","b","-","b","o","a","r","d","s",".","g","r","e","e","n","h","o","u","s","e",".","i","o">>
GhBoardsDomain == <<"b","o","a","r","d","s",".","g","r","e","e","n","h","o","u","s","e",".","i","o">>
LeverDomain == <<"j","o","b","s",".","l","e","v","e","r",".","c","o">>
WkApplyDomain == <<"a","p","p","l","y",".","w","o","r","k","a","b","l","e",".","c","o","m">>
WkJobsDomain == <<"j","o","b","s",".","w","o","r","k","a","b","l","e",".","c","o","m">>
DotGreenhouseIo == <<".","g","r","e","e","n","h","o","u","s","e",".","i","o">>
JobBoards == <<"j","o","b","-","b","o","a","r","d","s">>
Boards == <<"b","o","a","r","d","s">>
Company == <<"c","o","m","p","a","n","y">>
Slash == <<"/">>

\* The character class [^/?#] is given by the characters it excludes.
PathStop == {"/", "?", "#"}

Lit(s) == [k |-> "lit", s |-> s]

Alt(a) == [k |-> "alt", a |-> a]

NegPlus(x) == [k |-> "neg+", x |-> x]

(***************************************************************************)
(* Platform registry and search strategies                                 *)
(***************************************************************************)

\* A pattern is a sequence of items; group 1 spans the whole pattern.
AshbyPattern == <<Lit(Https \o AshbyDomain \o Slash), NegPlus(PathStop)>>

GreenhousePattern ==
  <<Lit(Https), Alt(<<JobBoards, Boards>>), Lit(DotGreenhouseIo \o Slash),
    NegPlus(PathStop)>>

LeverPattern == <<Lit(Https \o LeverDomain \o Slash), NegPlus(PathStop)>>

WorkableApplyPattern == <<Lit(Https \o WkApplyDomain \o Slash), NegPlus(PathStop)>>

WorkableJobsPattern ==
  <<Lit(Https \o WkJobsDomain \o Slash \o Company \o Slash), NegPlus(PathStop),
    Lit(Slash), NegPlus(PathStop)>>

\* Registry keys in dict (insertion) order.
PlatformOrder == <<"ashby", "greenhouse", "lever", "workable">>

PLATFORMS ==
  [ashby |->
     [domains |-> <<AshbyDomain>>,
      pattern |-> <<AshbyPattern>>,
      csv_column |-> "ashby_url",
      output_file |-> "ashby/companies.csv"],
   greenhouse |->
     [domains |-> <<GhJobBoardsDomain, GhBoardsDomain>>,
      pattern |-> <<GreenhousePattern>>,
      csv_column |-> "greenhouse_url",
      output_file |-> "greenhouse/greenhouse_companies.csv"],
   lever |->
     [domains |-> <<LeverDomain>>,
      pattern |-> <<LeverPattern>>,
      csv_column |-> "lever_url",
      output_file |-> "lever/lever_companies.csv"],
   workable |->
     [domains |-> <<WkApplyDomain, WkJobsDomain>>,
      pattern |-> <<WorkableApplyPattern, WorkableJobsPattern>>,
      csv_column |-> "workable_url",
      output_file |-> "workable/workable_companies.csv"]]

\* The text each strategy appends to "site:<domain>".
SEARCH_STRATEGIES ==
  <<"", " careers", " jobs", " hiring",
    " software engineer", " product manager", " designer", " remote",
    " San Francisco", " New York", " London", " Berlin", " Singapore",
    " startup", " YC">>

\* strategy_func(domain): the f-string "site:{domain}<suffix>", kept as its parts.
RenderQuery(strategy, domain) == <<"site:", domain, strategy>>

(***************************************************************************)
(* URL extraction                                                          *)
(***************************************************************************)

\* Length of the longest run of characters outside x that starts after pos.
RECURSIVE RunLen(_, _, _)
RunLen(u, pos, x) ==
  IF pos < Len(u) /\ u[pos + 1] \notin x THEN 1 + RunLen(u, pos + 1, x) ELSE 0

\* re.match of items i.. of pat on u after pos characters: the end of the
\* match, or -1. Alternatives are tried in order, the class greedily.
RECURSIVE MatchEnd(_, _, _, _)
RECURSIVE AltFrom(_, _, _, _, _)
RECURSIVE GreedyFrom(_, _, _, _, _)
MatchEnd(pat, i, u, pos) ==
  IF i > Len(pat) THEN pos
  ELSE LET e == pat[i] IN
    CASE e.k = "lit" ->
           IF HasPrefixAt(u, pos, e.s)
           THEN MatchEnd(pat, i + 1, u, pos + Len(e.s)) ELSE -1
      [] e.k = "alt" -> AltFrom(pat, i, u, pos, 1)
      [] e.k = "neg+" -> GreedyFrom(pat, i, u, pos, RunLen(u, pos, e.x))

AltFrom(pat, i, u, pos, j) ==
  IF j > Len(pat[i].a) THEN -1
  ELSE LET r == IF HasPrefixAt(u, pos, pat[i].a[j])
                THEN MatchEnd(pat, i + 1, u, pos + Len(pat[i].a[j])) ELSE -1
       IN IF r >= 0 THEN r ELSE AltFrom(pat, i, u, pos, j + 1)

GreedyFrom(pat, i, u, pos, n) ==
  IF n < 1 THEN -1
  ELSE LET r == MatchEnd(pat, i + 1, u, pos + n)
       IN IF r >= 0 THEN r ELSE GreedyFrom(pat, i, u, pos, n - 1)

\* Variant: the group leaves out the scheme.
ReMatchGroup1_NoScheme(pat, url) ==
  LET r == MatchEnd(pat, 1, url, 0)
  IN IF r >= 0 THEN SubSeq(url, Len(Https) + 1, r) ELSE <<>>

\* re.match(pat, url), then match.group(1); <<>> stands for "no match".
ReMatchGroup1(pat, url) ==
  LET r == MatchEnd(pat, 1, url, 0) IN IF r >= 0 THEN SubSeq(url, 1, r) ELSE <<>>

\* The first pattern, from the j-th on, that matches url gives the URL.
RECURSIVE FirstMatch(_, _, _)
FirstMatch(patterns, j, url) ==
  IF j > Len(patterns) THEN {}
  ELSE IF MatchEnd(patterns[j], 1, url, 0) >= 0
       THEN {ReMatchGroup1(patterns[j], url)}
       ELSE FirstMatch(patterns, j + 1, url)

\* What one result contributes: nothing for an empty URL, nothing for one
\* that contains no target domain, else the first matching pattern's group.
ExtractOne(url, patterns, domains) ==
  IF url = <<>> THEN {}
  ELSE IF ~ \E k \in 1..Len(domains) : Contains(url, domains[k]) THEN {}
  ELSE FirstMatch(patterns, 1, url)

\* extract_urls_from_results; results is the list of result URLs, as a set.
extract_urls_from_results(results, patterns, domains) ==
  UNION {ExtractOne(url, patterns, domains) : url \in results}

(***************************************************************************)
(* Bounds and inputs                                                       *)
(***************************************************************************)

\* Tool invocations per behaviour.
MaxInvocations == 2

\* Result URLs in one provider response.
MaxResults == 2

\* The largest of the small --max-queries values tried.
SmallQueries == 2

\* A platform name that is not in the registry.
UnknownPlatform == "bamboohr"

PlatformArgs == Range(PlatformOrder) \cup {UnknownPlatform, "all"}

\* The platform arguments tried with more queries allowed than there are
\* strategies: a platform with one domain, one with two, and an unknown one.
LongRunArgs == {"ashby", "greenhouse", UnknownPlatform}

\* The --max-queries values of a repeated invocation.
RepeatQueries == {-1, 0, 1}

\* The command lines <<platform, max_queries>> tried. The first invocation
\* takes any platform argument with -1 and the small values, or one of
\* LongRunArgs with more queries allowed than there are strategies; a later
\* invocation repeats the platform of a single-platform invocation before
\* it, with one of RepeatQueries.
CommandLines(n, last_arg) ==
  IF n = 0
  THEN (PlatformArgs \X ({-1} \cup (0..SmallQueries)))
         \cup (LongRunArgs \X {Len(SEARCH_STRATEGIES) + 1})
  ELSE IF last_arg = "all" THEN {}
  ELSE {last_arg} \X RepeatQueries

Acme == <<"a","c","m","e">>
Beta == <<"b","e","t","a">>
EvilHost == <<"e","v","i","l",".","c","o","m">>
JobPath == <<"/","j","o","b","/","1">>
RefQuery == <<"?","r","e","f","=","x">>

LeverAcme == Https \o LeverDomain \o Slash \o Acme
LeverBeta == Https \o LeverDomain \o Slash \o Beta
AshbyAcme == Https \o AshbyDomain \o Slash \o Acme

\* The result URLs a provider response is drawn from.
RawPool ==
  {LeverAcme \o JobPath, LeverBeta \o RefQuery, AshbyAcme,
   Https \o EvilHost \o Slash \o LeverDomain \o Slash \o Acme, <<>>}

ProviderResults == {R \in SUBSET RawPool : Cardinality(R) <= MaxResults}

(***************************************************************************)
(* The persisted store: one CSV file per output_file                       *)
(***************************************************************************)

Files == {PLATFORMS[p].output_file : p \in DOMAIN PLATFORMS}

\* header = "" is a file without a header line; an empty cell reads as NaN.
NoFile == [exists |-> FALSE, header |-> "", rows |-> <<>>]

CsvFile(header, rows) == [exists |-> TRUE, header |-> header, rows |-> rows]

NaN == <<>>

\* df[col].dropna().tolist() turned into a set.
DropNaSet(rows) == {c \in Range(rows) : c # NaN}

\* read_existing_urls; read_raises: pd.read_csv raises on this call.
read_existing_urls(file, column_name, read_raises) ==
  IF ~ file.exists THEN {}
  ELSE IF read_raises \/ file.header = "" THEN {}
  ELSE IF file.header = column_name THEN DropNaSet(file.rows)
  ELSE IF file.header = "url" THEN DropNaSet(file.rows)
  ELSE {}

\* The rows pd.DataFrame({column: sorted(urls)}) holds.
FrameRows(urls) == Sorted(urls)

\* Variant: the file is opened for appending.
to_csv_Append(file, column, rows, how, n) ==
  IF how = "ok" THEN CsvFile(column, file.rows \o rows) ELSE file

\* df.to_csv(output_file, index=False). how = "ok": the file is replaced by
\* header and rows; "open": opening failed, nothing is touched; "trunc":
\* the write failed after the file was truncated, n rows got out (n = -1:
\* not even the header).
to_csv(file, column, rows, how, n) ==
  CASE how = "ok" -> CsvFile(column, rows)
    [] how = "open" -> file
    [] how = "trunc" ->
         IF n < 0 THEN CsvFile("", <<>>) ELSE CsvFile(column, SubSeq(rows, 1, n))

\* The (how, n) pairs a write of rows can end in.
WriteOutcomes(rows) ==
  {<<"ok", Len(rows)>>, <<"open", 0>>}
    \cup {<<"trunc", n>> : n \in -1..(Len(rows) - 1)}

\* Stores a platform may have before the first invocation.
InitFiles(p) ==
  IF p = "lever"
  THEN {NoFile,
        CsvFile("lever_url", <<LeverAcme>>),
        CsvFile("url", <<LeverBeta, NaN, LeverAcme>>),
        CsvFile("link", <<LeverAcme>>)}
  ELSE IF p = "ashby" THEN {NoFile, CsvFile("ashby_url", <<AshbyAcme>>)}
  ELSE {NoFile}

(***************************************************************************)
(* State                                                                   *)
(***************************************************************************)

VARIABLES
  store,              \* output_file -> CSV file
  api_key,            \* FIRECRAWL_API_KEY is set in the environment
  invocations,        \* tool invocations so far
  pc,                 \* "idle", "call", "loop", "break", "returned"
  mode,               \* "all" or "single"
  pending,            \* platforms the orchestrator has still to start
  started,            \* platforms discover_platform was called for
  exit,               \* "none", "running", "ok", "crashed"
  platform_name,      \* argument of the current discover_platform call
  max_queries,        \* argument of the current discover_platform call
  app,                \* "unset", "failed", "ok": the FirecrawlApp client
  existing_urls,
  load_error,         \* read_existing_urls went through its except branch
  all_urls,
  query_urls,         \* URLs extracted from the latest query with results
  new_in_query,       \* those of them the session set did not hold yet
  search_errors,      \* app.search calls of this run that raised
  queries_used,
  total_credits_used,
  strategy_idx,       \* iterations of the strategy loop begun
  call_log,           \* queries passed to app.search, in order
  slept,              \* time.sleep(10) ran after the latest app.search
  combined_urls,
  new_urls,
  io,                 \* store reads and writes of the current call
  store_at_start,     \* the store when the current call began
  written,            \* files whose latest to_csv completed
  ext_pc,             \* extraction on its own: "input", "once", "twice"
  ext_platform,       \* the platform whose domains are passed
  ext_pattern,        \* the pattern argument
  ext_url,            \* the url of the one result passed
  ext_urls,           \* the set extract_urls_from_results returned
  ext_again,          \* what it returns for the URLs of ext_urls
  run,                \* two tool processes at once: each one's position,
                      \* platform and locals
  serp_pc,            \* lever/serp.py: "idle", "start", "fetch", "save",
                      \* "done", "crashed"
  serp_file,          \* lever_companies_serpapi.csv
  serp_existing_urls, \* existing_urls of __main__
  serp_all_urls,      \* all_urls of fetch_urls
  serp_i,             \* pages fetch_urls has asked for
  serp_starts         \* the "start" parameter of each request, in order

orchVars == <<api_key, invocations, mode, pending, started>>

runVars ==
  <<platform_name, max_queries, app, existing_urls, all_urls, queries_used,
    total_credits_used, strategy_idx, call_log, slept, combined_urls,
    new_urls, io, store_at_start, load_error, query_urls, new_in_query,
    search_errors>>

mainVars == <<store, pc, exit, written, orchVars, runVars>>

extVars == <<ext_pc, ext_platform, ext_pattern, ext_url, ext_urls, ext_again>>

\* The main state without the store, which concurrent processes share.
mainLocals == <<pc, exit, written, orchVars, runVars>>

\* The state of the parts that a run of the discovery tool does not involve.
serpVars ==
  <<serp_pc, serp_file, serp_existing_urls, serp_all_urls, serp_i, serp_starts>>

otherVars == <<extVars, run, serpVars>>

vars == <<mainVars, otherVars>>

\* config = PLATFORMS[platform_name]
Config == PLATFORMS[platform_name]

\* Variant: the strategy list is not cut to max_queries.
StrategiesToUse_NoSlice(mq) == SEARCH_STRATEGIES

\* Variant: the slice takes the last max_queries strategies.
StrategiesToUse_Last(mq) ==
  SubSeq(SEARCH_STRATEGIES,
         Len(SEARCH_STRATEGIES) - Len(PySlicePrefix(SEARCH_STRATEGIES, mq)) + 1,
         Len(SEARCH_STRATEGIES))

\* strategies_to_use = SEARCH_STRATEGIES[:max_queries]
StrategiesToUse(mq) == PySlicePrefix(SEARCH_STRATEGIES, mq)

\* credits_for_query
CreditsForQuery == 2

\* The extraction function is not being exercised.
ExtIdle ==
  /\ ext_pc = "idle"
  /\ ext_platform = "ashby"
  /\ ext_pattern = <<>>
  /\ ext_url = <<>>
  /\ ext_urls = {}
  /\ ext_again = {}

\* No second process: the tool runs alone.
RunIdle == run = <<>>

\* lever/serp.py is not run.
SerpIdle ==
  /\ serp_pc = "idle"
  /\ serp_file = NoFile
  /\ serp_existing_urls = {}
  /\ serp_all_urls = {}
  /\ serp_i = 0
  /\ serp_starts = <<>>

OtherIdle == ExtIdle /\ RunIdle /\ SerpIdle

\* The state before the first invocation of the discovery tool.
MainInit ==
  /\ store \in [Files -> UNION {InitFiles(p) : p \in DOMAIN PLATFORMS}]
  /\ \A p \in DOMAIN PLATFORMS : store[PLATFORMS[p].output_file] \in InitFiles(p)
  /\ api_key \in BOOLEAN
  /\ invocations = 0
  /\ pc = "idle"
  /\ mode = "single"
  /\ pending = <<>>
  /\ started = <<>>
  /\ exit = "none"
  /\ platform_name = "ashby"
  /\ max_queries = 0
  /\ app = "unset"
  /\ existing_urls = {}
  /\ load_error = FALSE
  /\ all_urls = {}
  /\ query_urls = {}
  /\ new_in_query = {}
  /\ search_errors = 0
  /\ queries_used = 0
  /\ total_credits_used = 0
  /\ strategy_idx = 0
  /\ call_log = <<>>
  /\ slept = FALSE
  /\ combined_urls = {}
  /\ new_urls = {}
  /\ io = [reads |-> 0, writes |-> 0]
  /\ store_at_start = store
  /\ written = {}

Init == MainInit /\ OtherIdle

\* The locals of a discover_platform call that is about to begin.
BeginCall(name, mq) ==
  /\ platform_name' = name
  /\ max_queries' = mq
  /\ app' = "unset"
  /\ existing_urls' = {}
  /\ load_error' = FALSE
  /\ all_urls' = {}
  /\ query_urls' = {}
  /\ new_in_query' = {}
  /\ search_errors' = 0
  /\ queries_used' = 0
  /\ total_credits_used' = 0
  /\ strategy_idx' = 0
  /\ call_log' = <<>>
  /\ slept' = FALSE
  /\ combined_urls' = {}
  /\ new_urls' = {}
  /\ io' = [reads |-> 0, writes |-> 0]
  /\ store_at_start' = store

\* __main__: parse the arguments and call discover_platform, directly or
\* for the first platform of discover_all_platforms.
Invoke ==
  /\ pc = "idle"
  /\ invocations < MaxInvocations
  /\ invocations' = invocations + 1
  /\ \E cl \in CommandLines(invocations,
                             IF mode = "all" THEN "all" ELSE platform_name) :
       LET todo == IF cl[1] = "all" THEN PlatformOrder ELSE <<cl[1]>> IN
         /\ mode' = IF cl[1] = "all" THEN "all" ELSE "single"
         /\ pending' = Tail(todo)
         /\ started' = <<Head(todo)>>
         /\ BeginCall(Head(todo), cl[2])
  /\ exit' = "running"
  /\ pc' = "call"
  /\ UNCHANGED <<store, api_key, written, otherVars>>

\* Variant: the API key is not checked.
ConfigChecked_NoKey(name, key, init_ok) ==
  /\ name \in DOMAIN PLATFORMS
  /\ init_ok

\* The configuration checks of discover_platform.
ConfigChecked(name, key, init_ok) ==
  /\ name \in DOMAIN PLATFORMS
  /\ key
  /\ init_ok

\* Variant: the error of pd.read_csv is not caught and ends the process.
LoadRaised_Uncaught ==
  /\ load_error' = TRUE
  /\ existing_urls' = {}
  /\ pc' = "idle"
  /\ exit' = "crashed"

\* The except branch of read_existing_urls: the error is printed and the
\* empty set is returned to discover_platform.
LoadRaised ==
  /\ load_error' = TRUE
  /\ existing_urls' =
       read_existing_urls(store[Config.output_file], Config.csv_column, TRUE)
  /\ pc' = "loop"
  /\ exit' = exit

\* discover_platform up to the loop: configuration checks, client, load.
EnterPlatform ==
  /\ pc = "call"
  /\ \E init_ok \in BOOLEAN, read_raises \in BOOLEAN :
       IF ConfigChecked(platform_name, api_key, init_ok)
       THEN /\ app' = "ok"
            /\ io' = [io EXCEPT !.reads = @ + 1]
            /\ IF /\ store[Config.output_file].exists
                  /\ read_raises \/ store[Config.output_file].header = ""
               THEN LoadRaised
               ELSE /\ existing_urls' =
                         read_existing_urls(store[Config.output_file],
                                            Config.csv_column, FALSE)
                    /\ load_error' = FALSE
                    /\ pc' = "loop"
                    /\ exit' = exit
       ELSE /\ app' = IF platform_name \in DOMAIN PLATFORMS /\ api_key
                      THEN "failed" ELSE "unset"
            /\ pc' = "returned"
            /\ exit' = exit
            /\ UNCHANGED <<existing_urls, load_error, io>>
  /\ UNCHANGED <<store, written, orchVars, platform_name, max_queries,
                 all_urls, queries_used, total_credits_used, strategy_idx,
                 call_log, slept, combined_urls, new_urls, store_at_start,
                 query_urls, new_in_query, search_errors, otherVars>>

\* Variant: the provider error is not caught and ends the process.
SearchRaised_Uncaught ==
  /\ pc' = "idle"
  /\ exit' = "crashed"
  /\ slept' = FALSE
  /\ search_errors' = search_errors + 1
  /\ UNCHANGED <<queries_used, total_credits_used, all_urls, query_urls,
                 new_in_query>>

\* Variant: the credits are added before the provider call is made.
SearchRaised_Charged ==
  /\ pc' = "loop"
  /\ exit' = exit
  /\ slept' = FALSE
  /\ search_errors' = search_errors + 1
  /\ total_credits_used' = total_credits_used + CreditsForQuery
  /\ UNCHANGED <<queries_used, all_urls, query_urls, new_in_query>>

\* The except branch of the loop body: the error is printed, the loop
\* continues with the next strategy.
SearchRaised ==
  /\ pc' = "loop"
  /\ exit' = exit
  /\ slept' = FALSE
  /\ search_errors' = search_errors + 1
  /\ UNCHANGED <<queries_used, total_credits_used, all_urls, query_urls,
                 new_in_query>>

\* Variant: the session set is replaced by the URLs of the latest query.
SessionUpdate_Replace(session, found) == found

\* all_urls.update(query_urls)
SessionUpdate(session, found) == session \cup found

\* The try branch after app.search returned a response with this web list.
SearchReturned(results) ==
  /\ pc' = "loop"
  /\ exit' = exit
  /\ queries_used' = queries_used + 1
  /\ total_credits_used' = total_credits_used + CreditsForQuery
  /\ search_errors' = search_errors
  /\ IF results = {}
     THEN /\ slept' = FALSE
          /\ UNCHANGED <<all_urls, query_urls, new_in_query>>
     ELSE /\ query_urls' =
               extract_urls_from_results(results, Config.pattern,
                                         Config.domains)
          /\ new_in_query' = query_urls' \ all_urls
          /\ all_urls' = SessionUpdate(all_urls, query_urls')
          /\ slept' = TRUE

\* One iteration of the strategy loop: the limit check, the query, the
\* provider call and what follows it. raises: app.search raised;
\* results: the web list of the response otherwise.
LoopStep ==
  /\ pc = "loop"
  /\ strategy_idx < Len(StrategiesToUse(max_queries))
  /\ strategy_idx' = strategy_idx + 1
  /\ IF queries_used >= max_queries
     THEN /\ pc' = "break"
          /\ UNCHANGED <<call_log, queries_used, total_credits_used,
                         all_urls, slept, exit, query_urls, new_in_query,
                         search_errors>>
     ELSE /\ call_log' =
               Append(call_log,
                      RenderQuery(StrategiesToUse(max_queries)[strategy_idx + 1],
                                  Config.domains[1]))
          /\ \E raises \in BOOLEAN, results \in ProviderResults :
               IF raises
               THEN results = {} /\ SearchRaised
               ELSE SearchReturned(results)
  /\ UNCHANGED <<store, written, orchVars, platform_name, max_queries, app,
                 existing_urls, load_error, combined_urls, new_urls, io, store_at_start,
                 otherVars>>

\* Variant: the limit check leaves the function instead of the loop.
LoopOver_NoBreak ==
  pc = "loop" /\ strategy_idx = Len(StrategiesToUse(max_queries))

\* Variant: the write may happen while strategies are still to be tried.
LoopOver_Early == pc \in {"loop", "break"}

\* The loop is over: its strategies are used up or it hit the break.
LoopOver ==
  \/ pc = "break"
  \/ pc = "loop" /\ strategy_idx = Len(StrategiesToUse(max_queries))

\* Variant: the frame is built from existing_urls.
Merge_ExistingOnly(existing, session) ==
  [combined |-> existing, new |-> session \ existing]

\* Variant: only the session's URLs are kept for the write.
Merge_SessionOnly(existing, session) ==
  [combined |-> session, new |-> session \ existing]

\* combined_urls and new_urls of discover_platform.
Merge(existing, session) ==
  [combined |-> existing \cup session, new |-> session \ existing]

\* The rest of discover_platform: costs, merge, and the write of the store.
\* A write that raises ends the process, as nothing catches it.
MergePersist ==
  /\ LoopOver
  /\ combined_urls' = Merge(existing_urls, all_urls).combined
  /\ new_urls' = Merge(existing_urls, all_urls).new
  /\ io' = [io EXCEPT !.writes = @ + 1]
  /\ \E w \in WriteOutcomes(FrameRows(combined_urls')) :
       /\ store' =
            [store EXCEPT ![Config.output_file] =
               to_csv(@, Config.csv_column, FrameRows(combined_urls'),
                      w[1], w[2])]
       /\ IF w[1] = "ok"
          THEN /\ pc' = "returned"
               /\ exit' = exit
               /\ written' = written \cup {Config.output_file}
          ELSE /\ pc' = "idle"
               /\ exit' = "crashed"
               /\ written' = written \ {Config.output_file}
  /\ UNCHANGED <<api_key, invocations, mode, pending, started,
                 platform_name, max_queries, app, existing_urls, load_error,
                 all_urls, query_urls, new_in_query, search_errors,
                 queries_used, total_credits_used, strategy_idx, call_log,
                 slept, store_at_start, otherVars>>

\* discover_platform has returned: discover_all_platforms sleeps and goes
\* on to the next platform, or the process ends.
AfterPlatform ==
  /\ pc = "returned"
  /\ IF mode = "all" /\ pending # <<>>
     THEN /\ pc' = "call"
          /\ started' = Append(started, Head(pending))
          /\ pending' = Tail(pending)
          /\ BeginCall(Head(pending), max_queries)
          /\ exit' = exit
     ELSE /\ pc' = "idle"
          /\ exit' = "ok"
          /\ UNCHANGED <<pending, started, runVars>>
  /\ UNCHANGED <<store, written, api_key, invocations, mode, otherVars>>

Next ==
  \/ Invoke
  \/ EnterPlatform
  \/ LoopStep
  \/ MergePersist
  \/ AfterPlatform

Spec == Init /\ [][Next]_vars

\* A first use of the tool: no platform has a store yet.
InitFresh == Init /\ \A f \in Files : store[f] = NoFile

\* The scheduling of a sequential program: a step that can be taken is
\* taken (the provider call returns or raises, a sleep ends).
FairSpec ==
  InitFresh /\ [][Next]_vars
    /\ WF_vars(EnterPlatform) /\ WF_vars(LoopStep)
    /\ WF_vars(MergePersist) /\ WF_vars(AfterPlatform)

\* A later use of the tool: the lever store exists, the others do not.
InitStored ==
  /\ Init
  /\ \A p \in DOMAIN PLATFORMS :
       store[PLATFORMS[p].output_file] =
         IF p = "lever" THEN CsvFile("lever_url", <<LeverAcme>>) ELSE NoFile

FairSpecStored ==
  InitStored /\ [][Next]_vars
    /\ WF_vars(EnterPlatform) /\ WF_vars(LoopStep)
    /\ WF_vars(MergePersist) /\ WF_vars(AfterPlatform)

(***************************************************************************)
(* Two invocations of the tool at the same time                            *)
(***************************************************************************)

\* Provider calls of one process.
MaxConcQueries == 1

Procs == {1, 2}

\* The platforms the two processes are started for.
ConcPlatforms == {"ashby", "lever"}

\* The file of process i.
FileOf(i) == PLATFORMS[run[i].platform_name].output_file

\* Two processes, each past the configuration checks of discover_platform,
\* neither having read its store yet.
ConcInit ==
  /\ MainInit
  /\ api_key = TRUE
  /\ store[PLATFORMS["lever"].output_file]
       \in {NoFile, CsvFile("lever_url", <<LeverAcme>>)}
  /\ ExtIdle
  /\ SerpIdle
  /\ run \in [Procs ->
               [pc : {"start"}, platform_name : ConcPlatforms,
                existing_urls : {{}}, all_urls : {{}}, queries_used : {0},
                combined_urls : {{}}]]

\* Process i reads its store: read_existing_urls. A file another process
\* has opened for writing and not yet written is empty, and pd.read_csv
\* raises on it.
ConcLoad ==
  \E i \in Procs :
    /\ run[i].pc = "start"
    /\ run' = [run EXCEPT
                 ![i].existing_urls =
                   read_existing_urls(store[FileOf(i)],
                                      PLATFORMS[run[i].platform_name].csv_column,
                                      FALSE),
                 ![i].pc = "loop"]
    /\ UNCHANGED <<store, mainLocals, extVars, serpVars>>

\* Process i makes a provider call that returns results.
ConcSearch ==
  \E i \in Procs, results \in ProviderResults :
    /\ run[i].pc = "loop"
    /\ run[i].queries_used < MaxConcQueries
    /\ run' = [run EXCEPT
                 ![i].all_urls =
                   SessionUpdate(@,
                     extract_urls_from_results(
                       results, PLATFORMS[run[i].platform_name].pattern,
                       PLATFORMS[run[i].platform_name].domains)),
                 ![i].queries_used = @ + 1]
    /\ UNCHANGED <<store, mainLocals, extVars, serpVars>>

\* Process i leaves the loop, merges, and to_csv opens the file for
\* writing, which empties it.
ConcOpen ==
  \E i \in Procs :
    /\ run[i].pc = "loop"
    /\ run' = [run EXCEPT
                 ![i].combined_urls =
                   Merge(run[i].existing_urls, run[i].all_urls).combined,
                 ![i].pc = "writing"]
    /\ store' = [store EXCEPT ![FileOf(i)] = CsvFile("", <<>>)]
    /\ UNCHANGED <<mainLocals, extVars, serpVars>>

\* to_csv of process i writes the header and the rows and closes the file.
ConcWrite ==
  \E i \in Procs :
    /\ run[i].pc = "writing"
    /\ store' =
         [store EXCEPT ![FileOf(i)] =
            to_csv(@, PLATFORMS[run[i].platform_name].csv_column,
                   FrameRows(run[i].combined_urls), "ok",
                   Cardinality(run[i].combined_urls))]
    /\ run' = [run EXCEPT ![i].pc = "done"]
    /\ UNCHANGED <<mainLocals, extVars, serpVars>>

ConcNext ==
  \/ ConcLoad
  \/ ConcSearch
  \/ ConcOpen
  \/ ConcWrite

ConcSpec == ConcInit /\ [][ConcNext]_vars

(***************************************************************************)
(* lever/serp.py: the script for the paginated search API                  *)
(***************************************************************************)

PAGES == 50

\* read_existing_urls of serp.py: only the lever_url column is looked for.
serp_read_existing_urls(file, read_raises) ==
  IF ~ file.exists THEN {}
  ELSE IF read_raises \/ file.header = "" THEN {}
  ELSE IF file.header = "lever_url" THEN DropNaSet(file.rows)
  ELSE {}

\* The inner loop of fetch_urls over the organic results of one page: a
\* link that is set and contains jobs.lever.co is matched from its start.
SerpPageUrls(links) ==
  UNION {ExtractOne(link, <<LeverPattern>>, <<LeverDomain>>) : link \in links}

\* The script is started; its output file may exist from an earlier run.
SerpInit ==
  /\ MainInit
  /\ api_key = FALSE
  /\ \A f \in Files : store[f] = NoFile
  /\ ExtIdle
  /\ RunIdle
  /\ serp_pc = "start"
  /\ serp_file \in {NoFile, CsvFile("lever_url", <<LeverAcme>>)}
  /\ serp_existing_urls = {}
  /\ serp_all_urls = {}
  /\ serp_i = 0
  /\ serp_starts = <<>>

\* __main__: existing_urls = read_existing_urls(output_file)
SerpLoad ==
  /\ serp_pc = "start"
  /\ \E read_raises \in BOOLEAN :
       serp_existing_urls' = serp_read_existing_urls(serp_file, read_raises)
  /\ serp_pc' = "fetch"
  /\ UNCHANGED <<mainVars, extVars, run, serp_file, serp_all_urls, serp_i,
                 serp_starts>>

\* One iteration of the page loop of fetch_urls. search.get_dict() either
\* raises, which nothing catches, so the process ends; or it returns a
\* dictionary, whose organic_results (none, for an error reply) are gone
\* through.
SerpFetchPage ==
  /\ serp_pc = "fetch"
  /\ serp_i < PAGES
  /\ serp_starts' = Append(serp_starts, serp_i * 10)
  /\ \E raises \in BOOLEAN, links \in ProviderResults :
       IF raises
       THEN /\ links = {}
            /\ serp_pc' = "crashed"
            /\ UNCHANGED <<serp_all_urls, serp_i>>
       ELSE /\ serp_all_urls' = serp_all_urls \cup SerpPageUrls(links)
            /\ serp_i' = serp_i + 1
            /\ serp_pc' = "fetch"
  /\ UNCHANGED <<mainVars, extVars, run, serp_file, serp_existing_urls>>

\* fetch_urls returns and save_to_csv writes the union; a write that
\* raises ends the process.
SerpSave ==
  /\ serp_pc = "fetch"
  /\ serp_i = PAGES
  /\ LET rows == FrameRows(serp_existing_urls \cup serp_all_urls) IN
       \E w \in WriteOutcomes(rows) :
         /\ serp_file' = to_csv(serp_file, "lever_url", rows, w[1], w[2])
         /\ serp_pc' = IF w[1] = "ok" THEN "done" ELSE "crashed"
  /\ UNCHANGED <<mainVars, extVars, run, serp_existing_urls, serp_all_urls,
                 serp_i, serp_starts>>

SerpNext ==
  \/ SerpLoad
  \/ SerpFetchPage
  \/ SerpSave

SerpSpec == SerpInit /\ [][SerpNext]_vars

(***************************************************************************)
(* extract_urls_from_results on its own                                    *)
(***************************************************************************)

\* A pattern that is not in the registry: (https://[^/?#]+/[^/?#]+).
AnyHostPattern ==
  <<Lit(Https), NegPlus(PathStop), Lit(Slash), NegPlus(PathStop)>>

Http == <<"h","t","t","p",":","/","/">>

AllDomains == UNION {Range(PLATFORMS[p].domains) : p \in DOMAIN PLATFORMS}

\* Hosts of result URLs: the platforms' domains, a foreign host, and
\* foreign hosts that carry a platform domain as user info or as a prefix.
UrlHosts ==
  AllDomains
    \cup {EvilHost, LeverDomain \o <<"@">> \o EvilHost,
          LeverDomain \o <<".">> \o EvilHost}

\* What follows the host: nothing, company roots, deeper paths, queries,
\* fragments, and paths or queries that contain a platform domain.
UrlTails ==
  {<<>>, Slash, Slash \o Acme, Slash \o Acme \o JobPath,
   Slash \o Beta \o RefQuery, Slash \o Acme \o <<"#">> \o Beta,
   Slash \o Company \o Slash \o Acme,
   Slash \o Company \o Slash \o Acme \o JobPath,
   Slash \o Acme \o <<"?">> \o LeverDomain}
    \cup {Slash \o d \o Slash \o Acme : d \in AllDomains}

\* The url of a search result: absent, or scheme, host and tail.
ResultUrls ==
  {<<>>}
    \cup {Https \o h \o t : h \in UrlHosts, t \in UrlTails}
    \cup {Http \o h \o Slash \o Acme : h \in AllDomains}

\* The calls tried: a platform's domains with its own pattern, or with the
\* pattern that is not in the registry.
ExtractInit ==
  /\ MainInit
  /\ api_key = FALSE
  /\ \A f \in Files : store[f] = NoFile
  /\ ext_pc = "input"
  /\ ext_platform \in DOMAIN PLATFORMS
  /\ ext_pattern \in {PLATFORMS[ext_platform].pattern, <<AnyHostPattern>>}
  /\ ext_url \in ResultUrls
  /\ ext_urls = {}
  /\ ext_again = {}
  /\ RunIdle
  /\ SerpIdle

\* extract_urls_from_results([{"url": ext_url}], ext_pattern, domains)
ExtractFirst ==
  /\ ext_pc = "input"
  /\ ext_urls' =
       extract_urls_from_results({ext_url}, ext_pattern,
                                 PLATFORMS[ext_platform].domains)
  /\ ext_pc' = "once"
  /\ UNCHANGED <<mainVars, run, serpVars, ext_platform, ext_pattern, ext_url,
                 ext_again>>

\* The same call on the URLs the first call returned.
ExtractAgain ==
  /\ ext_pc = "once"
  /\ ext_again' =
       extract_urls_from_results(ext_urls, ext_pattern,
                                 PLATFORMS[ext_platform].domains)
  /\ ext_pc' = "twice"
  /\ UNCHANGED <<mainVars, run, serpVars, ext_platform, ext_pattern, ext_url,
                 ext_urls>>

ExtractNext ==
  \/ ExtractFirst
  \/ ExtractAgain

ExtractSpec == ExtractInit /\ [][ExtractNext]_vars

(***************************************************************************)
(* Properties                                                              *)
(***************************************************************************)

\* The file of the platform of the current call.
CurrentFile == store[Config.output_file]

\* The URLs a file holds, whatever its column is called.
StoreUrls(file) == IF file.exists THEN DropNaSet(file.rows) ELSE {}

\* A step in which app.search is invoked.
SearchStep == Len(call_log') = Len(call_log) + 1

\* A step in which app.search is invoked and raises.
SearchErrorStep == SearchStep /\ queries_used' = queries_used

\* The current call has written its store and to_csv completed.
Persisted == io.writes = 1 /\ exit # "crashed"

\* C1: for a non-negative max_queries, a discover_platform call invokes the
\* search provider at most min(max_queries, number of strategies) times.
C1_CallsBounded ==
  max_queries >= 0 =>
    Len(call_log) <= Min(max_queries, Len(SEARCH_STRATEGIES))

\* C1 witness: more queries allowed than strategies, some calls raised, and
\* the provider was invoked once per strategy.
C1_Witness ==
  /\ max_queries > Len(SEARCH_STRATEGIES)
  /\ Len(call_log) = Len(SEARCH_STRATEGIES)
  /\ queries_used < Len(call_log)

\* C2: a provider call that raises adds no URL to the session set and
\* leaves the loop running; a loop in which some call raised ends only
\* after every strategy of the prefix was tried, min(max_queries, 15) calls.
C2_ErrorSkipsQueryOnly ==
  /\ [][SearchErrorStep => (all_urls' = all_urls /\ pc' = "loop")]_vars
  /\ [](LoopOver /\ queries_used < Len(call_log) =>
          Len(call_log) = Min(max_queries, Len(SEARCH_STRATEGIES)))

\* C2 witness: the loop over 15 strategies is finished, exactly one call
\* raised, and other queries contributed URLs.
C2_Witness ==
  /\ LoopOver
  /\ Len(call_log) = Len(SEARCH_STRATEGIES)
  /\ queries_used = Len(call_log) - 1
  /\ all_urls # {}

\* C3 (as claimed): once a call has persisted, every URL the platform's
\* store held when the call began is still in the store.
C3_StoreOnlyGains ==
  (pc = "returned" /\ io.writes = 1) =>
    StoreUrls(store_at_start[Config.output_file]) \subseteq StoreUrls(CurrentFile)

\* C4: the merge step computes combined = E \cup S and newOnly = S \ E, so
\* newOnly is disjoint from E and combined = E \cup newOnly; what is
\* persisted is combined.
C4_MergeIsUnionAndDifference ==
  /\ io.writes = 1 =>
       /\ combined_urls = existing_urls \cup all_urls
       /\ new_urls = all_urls \ existing_urls
       /\ new_urls \cap existing_urls = {}
       /\ combined_urls = existing_urls \cup new_urls
  /\ Persisted => StoreUrls(CurrentFile) = combined_urls

\* C4 witness: E = {lever/acme}, S = {lever/acme, lever/beta}.
C4_Witness ==
  /\ Persisted
  /\ existing_urls = {LeverAcme}
  /\ all_urls = {LeverAcme, LeverBeta}
  /\ new_urls = {LeverBeta}
  /\ combined_urls = {LeverAcme, LeverBeta}
  /\ StoreUrls(CurrentFile) = {LeverAcme, LeverBeta}

\* C5: after the persist step the store holds the combined set, each URL
\* once, as strictly ascending rows under the platform's column; nothing
\* else of the prior file is left.
C5_PersistSortedOverwrite ==
  Persisted =>
    LET rows == CurrentFile.rows IN
      /\ CurrentFile.exists
      /\ CurrentFile.header = Config.csv_column
      /\ Range(rows) = combined_urls
      /\ Len(rows) = Cardinality(combined_urls)
      /\ \A i \in 1..Len(rows) : \A j \in 1..Len(rows) :
           i < j => StrLess(rows[i], rows[j])

\* C5 witness: an unsorted legacy file with an empty cell was replaced by
\* the two sorted rows.
C5_Witness ==
  /\ Persisted
  /\ store_at_start[Config.output_file].rows = <<LeverBeta, NaN, LeverAcme>>
  /\ CurrentFile.rows = <<LeverAcme, LeverBeta>>

\* C6 (as claimed): when a call persists a store that the previous call on
\* it persisted, and its session holds no URL that is not in the store,
\* the store is left as it was.
C6_SecondRunIdentical ==
  [][(/\ io'.writes = io.writes + 1
      /\ pc' = "returned"
      /\ Config.output_file \in written
      /\ all_urls \subseteq StoreUrls(CurrentFile))
     => store'[Config.output_file] = CurrentFile]_vars

\* C7: a call that passed the configuration checks goes on to write the
\* store, and no call writes it twice.
C7_ReachesPersistOnce ==
  /\ (pc = "loop") ~> (io.writes = 1)
  /\ [](io.writes <= 1)

\* C7 witness: the store is written after a full loop in which calls
\* raised and calls returned nothing.
C7_Witness ==
  /\ io.writes = 1
  /\ strategy_idx = Len(SEARCH_STRATEGIES)
  /\ queries_used < Len(call_log)
  /\ all_urls = {}

\* The current call met a configuration error.
ConfigError ==
  \/ platform_name \notin DOMAIN PLATFORMS
  \/ ~ api_key
  \/ app = "failed"

\* C8: on a configuration error the call ends without a provider call and
\* without reading or writing the store, which stays as it was.
C8_ConfigErrorTouchesNothing ==
  ConfigError =>
    /\ pc \in {"idle", "call", "returned"}
    /\ call_log = <<>>
    /\ io = [reads |-> 0, writes |-> 0]
    /\ store = store_at_start

\* C8 witness: the client could not be initialised for a platform whose
\* store holds URLs, and the call has returned.
C8_Witness ==
  /\ pc = "returned"
  /\ app = "failed"
  /\ StoreUrls(CurrentFile) # {}

\* C9 (as claimed): a process run in "all" mode ends only after
\* discover_platform was called for every platform, in registry order.
C9_AllPlatformsStarted ==
  (pc = "idle" /\ mode = "all") => started = PlatformOrder

\* C10 (as claimed): no provider call follows another of the same
\* discover_platform call without the sleep in between.
C10_PacedCalls ==
  [][(SearchStep /\ Len(call_log) > 0) => slept]_vars

\* The authority of a URL: what stands between "://" and the next "/", "?"
\* or "#"; empty when the URL has no "://".
AuthorityOf(u) ==
  LET starts == {i \in 1..Len(u) : HasPrefixAt(u, i - 1, <<":","/","/">>)} IN
    IF starts = {} THEN <<>>
    ELSE LET i == CHOOSE k \in starts : \A m \in starts : k <= m
             n == RunLen(u, i + 2, PathStop)
         IN SubSeq(u, i + 3, i + 2 + n)

\* The host of a URL: the authority without user info and port.
HostOf(u) ==
  LET a == AuthorityOf(u)
      ats == {i \in 1..Len(a) : a[i] = "@"}
      h == IF ats = {} THEN a
           ELSE SubSeq(a, (CHOOSE k \in ats : \A m \in ats : k >= m) + 1, Len(a))
  IN SubSeq(h, 1, RunLen(h, 0, {":"}))

\* The call under test passes the platform's own pattern.
RegistryCall == ext_pattern = PLATFORMS[ext_platform].pattern

\* C11 (as claimed): whatever the pattern argument is, a result whose host
\* is not one of the domains passed yields no URL.
C11_ForeignHostYieldsNothing ==
  (ext_pc # "input"
     /\ HostOf(ext_url) \notin Range(PLATFORMS[ext_platform].domains))
    => ext_urls = {}


StoreMissing ==
  /\ platform_name \in DOMAIN PLATFORMS
  /\ ~ store_at_start[Config.output_file].exists

\* C13: a store that exists but cannot be read, and a store that is
\* missing, both give the empty existing set without ending the run: the
\* call enters the loop, keeps the empty set, and goes on to the write.
C13_LoadFailureIsEmptySet ==
  /\ [](/\ (io.reads = 1 /\ (load_error \/ StoreMissing)) => existing_urls = {}
        /\ (load_error /\ io.writes = 0) =>
             (pc \in {"loop", "break"} /\ exit = "running"))
  /\ ((load_error \/ StoreMissing) /\ pc = "loop")
       ~> (io.writes = 1 /\ existing_urls = {})

\* C13 witness: the lever store held a URL, reading it failed, the loop ran
\* with provider calls, and the store was written.
C13_Witness ==
  /\ load_error
  /\ StoreUrls(store_at_start[Config.output_file]) # {}
  /\ existing_urls = {}
  /\ Len(call_log) > 0
  /\ io.writes = 1

\* The strategy loop of the current call has come to its end.
LoopTerminated ==
  \/ pc = "break"
  \/ pc = "loop" /\ strategy_idx = Len(PySlicePrefix(SEARCH_STRATEGIES, max_queries))

\* Two successive states of one and the same discover_platform call, after
\* the load.
SameCallStep == io.reads = 1 /\ io'.reads = 1

\* C14: until the call writes, the store is what it was when the call
\* began; the store changes only in the one write after the loop has
\* terminated; and the loaded existing set is never changed afterwards.
C14_StoreUntouchedBeforePersist ==
  /\ [](io.writes = 0 => store = store_at_start)
  /\ [][store' # store => (LoopTerminated /\ io.writes = 0 /\ io'.writes = 1)]_vars
  /\ [][SameCallStep => existing_urls' = existing_urls]_vars

\* C14 witness: in the middle of the loop the session holds a URL that the
\* loaded store does not, and the store is still as it was.
C14_Witness ==
  /\ pc = "loop"
  /\ existing_urls = {LeverAcme}
  /\ all_urls = {LeverAcme, LeverBeta}
  /\ strategy_idx < Len(StrategiesToUse(max_queries))
  /\ store = store_at_start

\* C15: the credits accrued are 2 for every provider call that returned,
\* a call that raised adds none, and the loop is left only when the
\* strategies are used up or the query count has reached max_queries.
C15_CreditsPerCompletedCall ==
  /\ [](total_credits_used = 2 * (Len(call_log) - search_errors))
  /\ [][(SearchStep /\ search_errors' = search_errors + 1)
         => total_credits_used' = total_credits_used]_vars
  /\ [][(pc = "loop" /\ pc' # "loop")
         => \/ strategy_idx = Len(PySlicePrefix(SEARCH_STRATEGIES, max_queries))
            \/ queries_used >= max_queries]_vars

\* C15 witness: fifteen calls, one of which raised, and 28 credits.
C15_Witness ==
  /\ Len(call_log) = Len(SEARCH_STRATEGIES)
  /\ search_errors = 1
  /\ total_credits_used = 28
  /\ pc = "loop"

\* C16 (as claimed): queries_used is the number of provider calls made, and
\* after a loop that tried every strategy of the prefix it is
\* min(max_queries, 15).
C16_QueriesUsedCountsCalls ==
  /\ queries_used = Len(call_log)
  /\ (LoopTerminated /\ max_queries >= 0) =>
       queries_used = Min(max_queries, Len(SEARCH_STRATEGIES))

\* C17: within a call the session set only grows; a query with results
\* makes it the union of what it was and the URLs extracted from that
\* query, new_in_query being exactly the URLs added; a query that raised
\* or returned nothing leaves it as it was.
C17_SessionSetGrows ==
  /\ [][SameCallStep => all_urls \subseteq all_urls']_vars
  /\ [][SearchStep =>
          IF slept'
          THEN /\ all_urls' = all_urls \cup query_urls'
               /\ new_in_query' = all_urls' \ all_urls
               /\ Cardinality(new_in_query') =
                    Cardinality(all_urls') - Cardinality(all_urls)
          ELSE all_urls' = all_urls]_vars

\* C17 witness: the second query found acme again and beta; beta counts as
\* new in the query although the store already holds it.
C17_Witness ==
  /\ Len(call_log) = 2
  /\ existing_urls = {LeverAcme, LeverBeta}
  /\ query_urls = {LeverAcme, LeverBeta}
  /\ new_in_query = {LeverBeta}
  /\ all_urls = {LeverAcme, LeverBeta}

\* C18: the k-th provider call of a discover_platform call carries the k-th
\* strategy rendered with the platform's first domain, so no strategy is
\* tried twice and no other domain is queried.
C18_QueriesInStrategyOrder ==
  /\ \A k \in 1..Len(call_log) :
       call_log[k] =
         <<"site:", PLATFORMS[platform_name].domains[1], SEARCH_STRATEGIES[k]>>
  /\ \A j, k \in 1..Len(call_log) : j # k => call_log[j] # call_log[k]

\* C18 witness: all fifteen queries of a platform with two domains were
\* issued and some of them raised.
C18_Witness ==
  /\ platform_name = "greenhouse"
  /\ Len(call_log) = Len(SEARCH_STRATEGIES)
  /\ search_errors > 1
  /\ call_log[Len(SEARCH_STRATEGIES)] = <<"site:", GhJobBoardsDomain, " YC">>

\* Both processes have written their store.
BothDone == \A i \in Procs : run[i].pc = "done"

\* The two processes work on the same platform.
SamePlatform == run[1].platform_name = run[2].platform_name

\* C19: a store is changed only by a process of its own platform, so two
\* processes on different platforms each leave their store holding their
\* loaded and discovered URLs; two processes on one platform leave the
\* store as the one that wrote last made it, whatever the other wrote.
C19_DisjointStoresLastWriterWins ==
  /\ [][\A f \in Files :
          store'[f] # store[f] =>
            \E i \in Procs : run'[i].pc # run[i].pc /\ FileOf(i) = f]_vars
  /\ [](\A i \in Procs :
          (run # <<>> /\ ~ SamePlatform /\ run[i].pc = "done") =>
            StoreUrls(store[FileOf(i)]) =
              StoreUrls(store_at_start[FileOf(i)]) \cup run[i].all_urls)
  /\ []((run # <<>> /\ SamePlatform /\ BothDone) =>
          \E i \in Procs : StoreUrls(store[FileOf(i)]) = run[i].combined_urls)

\* C19 witness, the lost update: both processes loaded the lever store
\* before either wrote, each found a URL and wrote, and the store lacks the
\* URL that process 1 found and wrote.
C19_Witness ==
  /\ run # <<>>
  /\ BothDone
  /\ run[1].platform_name = "lever" /\ run[2].platform_name = "lever"
  /\ run[1].existing_urls = {LeverAcme} /\ run[2].existing_urls = {LeverAcme}
  /\ run[1].all_urls = {LeverBeta}
  /\ LeverBeta \in run[1].combined_urls
  /\ LeverBeta \notin StoreUrls(store[FileOf(1)])

\* C20 (as claimed): the pages are asked for at the offsets 0, 10, 20, ...
\* in this order, and the script ends only after it has asked for all
\* PAGES pages, whatever the provider calls did.
C20_PageErrorSkipsPageOnly ==
  /\ \A k \in 1..Len(serp_starts) : serp_starts[k] = (k - 1) * 10
  /\ serp_pc \in {"done", "crashed"} => Len(serp_starts) = PAGES

====
